---------------------------- MODULE Spec2Model ----------------------------
(***************************************************************************)
(* State-machine model of the teriyaki graph model (classes/meta.rs) and   *)
(* of its deletion maintenance pass (updater/deletion.rs).                 *)
(*                                                                         *)
(* A HashMap is a TLA+ function whose DOMAIN is the key set.  Option<u32>  *)
(* is an id, with None written 0 (ids are positive).  An edge Vec<u32> of  *)
(* two entries is the tuple <<predicate, other-id>>.  A call that panics   *)
(* ends the program: for the graph-model operations the action is simply   *)
(* not enabled; the maintenance pass records the abort in pc.              *)
(***************************************************************************)
EXTENDS Integers, Sequences, FiniteSets, TLC

VARIABLES
    nodes,          \* Meta.nodes / MetaData.nodes : id -> NodeInfo
    supernodes,     \* Meta.supernodes / MetaData.supernodes : id -> member list
    index_map,      \* MetaData.index_map : id -> <<source index, target index>>
    source_clique,  \* Vec<Clique> of the source role
    target_clique,  \* Vec<Clique> of the target role
    deletions,      \* the part of the batch delete_triple has not handled yet
    pc,             \* "idle" | "running" | "done" | "aborted"
    file,           \* the MetaFile snapshot: [s: supernode records, q: node records]
    last            \* the last call made and what it was given

vars == <<nodes, supernodes, index_map, source_clique, target_clique,
          deletions, pc, file, last>>

-----------------------------------------------------------------------------
(* Bounds of the model *)

MaxEdges == 2       \* most edge entries the graph-model operations build up
MaxOps == 4         \* most graph-model calls in one run
MaxTriples == 2     \* most facts in the dataset a maintenance pass starts from
MaxBatch == 2       \* most removed facts in one batch
MaxRecords == 2     \* most records in each collection of a snapshot file

None == 0

\* The identifier space: the ids 1..3 are the nodes of the datasets a pass
\* starts from, and 4 names their cluster.  Predicates are ids of their own.
NodeIds == 1..3
Ids == NodeIds \cup {4}
Preds == {10, 11}

-----------------------------------------------------------------------------
(* Sequence helpers: Vec::retain, Vec::contains, concatenation *)

Retain(s, keep(_)) == SelectSeq(s, keep)

Range(s) == {s[i] : i \in DOMAIN s}

Count(s, x) == Cardinality({i \in DOMAIN s : s[i] = x})

SeqsUpTo(S, n) == UNION {[1..k -> S] : k \in 0..n}

Distinct(s) == \A i, j \in DOMAIN s : i # j => s[i] # s[j]

\* HashMap::insert and HashMap::remove
MapInsert(m, k, v) == [x \in DOMAIN m \cup {k} |-> IF x = k THEN v ELSE m[x]]
MapRemove(m, k) == [x \in DOMAIN m \ {k} |-> m[x]]

\* HashMap::new()
EmptyMap == [x \in {} |-> 0]

\* MetaFile { s: vec![], q: vec![] }
EmptyFile == [s |-> <<>>, q |-> <<>>]

-----------------------------------------------------------------------------
(* classes/meta.rs *)

Triple(s, p, o) == [sub |-> s, pred |-> p, obj |-> o]

NodeInfo(parent, incoming, outgoing) ==
    [parent |-> parent, incoming |-> incoming, outgoing |-> outgoing]

contains_supernode(sn, node) == node \in DOMAIN sn

contains(ns, sn, node) == node \in DOMAIN ns \/ node \in DOMAIN sn

\* new_node: the record is built by NodeInfo::new(&None, &vec![], &vec![[pred, other]]),
\* whose parameters are (parent, incoming, outgoing).
new_node_info(triple, is_sub) ==
    LET other == IF is_sub THEN triple.obj ELSE triple.sub
    IN  NodeInfo(None, <<>>, << <<triple.pred, other>> >>)

new_node_id(triple, is_sub) == IF is_sub THEN triple.sub ELSE triple.obj

new_node_ok(ns, sn, triple, is_sub) == ~contains(ns, sn, new_node_id(triple, is_sub))

new_node(ns, triple, is_sub) ==
    MapInsert(ns, new_node_id(triple, is_sub), new_node_info(triple, is_sub))

add_outgoing(ns, triple) ==
    [ns EXCEPT ![triple.sub].outgoing = Append(@, <<triple.pred, triple.obj>>)]

add_incoming(ns, triple) ==
    [ns EXCEPT ![triple.obj].incoming = Append(@, <<triple.pred, triple.sub>>)]

get_parent(ns, node) == ns[node].parent

has_parent(ns, node) == get_parent(ns, node) # None

\* remove_from_supernode: both unwraps succeed
remove_from_supernode_ok(ns, sn, node) ==
    /\ node \in DOMAIN ns
    /\ ns[node].parent # None
    /\ ns[node].parent \in DOMAIN sn

\* The retain test turned round: retain(|x| *x == *node).
remove_from_supernode_sn_eq(ns, sn, node) ==
    LET p == get_parent(ns, node)
        keep(x) == x = node
    IN  [sn EXCEPT ![p] = Retain(@, keep)]

remove_from_supernode_sn(ns, sn, node) ==
    LET p == get_parent(ns, node)
        keep(x) == x # node
    IN  [sn EXCEPT ![p] = Retain(@, keep)]

remove_from_supernode_ns(ns, node) == [ns EXCEPT ![node].parent = None]

supernode_len(sn, node) == Len(sn[node])

\* to_single_node: the guard `!self.supernode_len(snode) == 1` negates the
\* length bitwise before comparing (usize, 64 bits), so it holds only for a
\* length of usize::MAX - 1; the panics left are a missing supernode, the index
\* [0] of an empty list and a first member that is no node.  A usize is
\* written as its four 16-bit limbs, most significant first, since 2^64 is
\* past the integers TLC holds: Word(n) is the usize of a number n < 2^31,
\* WordMax is usize::MAX and BitNot(n) is !n.
Word(n) == <<0, 0, n \div 65536, n % 65536>>

WordMax == <<65535, 65535, 65535, 65535>>

BitNot(n) == [i \in 1..4 |-> WordMax[i] - Word(n)[i]]

to_single_node_len_panics(sn, snode) == BitNot(supernode_len(sn, snode)) = Word(1)

to_single_node_ok(ns, sn, snode) ==
    /\ contains_supernode(sn, snode)
    /\ ~to_single_node_len_panics(sn, snode)
    /\ Len(sn[snode]) > 0
    /\ sn[snode][1] \in DOMAIN ns

to_single_node_ns(ns, sn, snode) == [ns EXCEPT ![sn[snode][1]].parent = None]

to_single_node_sn(sn, snode) == MapRemove(sn, snode)

\* new_snode: one pass of the loop `for n in old`, on the triple
\* <<nodes, supernodes, new_snode>>; acc[4] is FALSE once an unwrap failed.
new_snode_absorb(ns, members, new) ==
    [x \in DOMAIN ns |-> IF x \in Range(members)
                         THEN [ns[x] EXCEPT !.parent = new] ELSE ns[x]]

new_snode_step(acc, n, new) ==
    IF ~acc[4] THEN acc
    ELSE IF contains_supernode(acc[2], n)
    THEN LET sn == acc[2][n]
         IN  IF Range(sn) \subseteq DOMAIN acc[1]
             THEN <<new_snode_absorb(acc[1], sn, new), MapRemove(acc[2], n),
                    acc[3] \o sn, TRUE>>
             ELSE <<acc[1], acc[2], acc[3], FALSE>>
    ELSE IF n \in DOMAIN acc[1]
    THEN <<[acc[1] EXCEPT ![n].parent = new], acc[2], Append(acc[3], n), TRUE>>
    ELSE <<acc[1], acc[2], acc[3], FALSE>>

RECURSIVE new_snode_loop(_, _, _)
new_snode_loop(acc, old, new) ==
    IF old = <<>> THEN acc
    ELSE new_snode_loop(new_snode_step(acc, Head(old), new), Tail(old), new)

new_snode_run(ns, sn, old, new) == new_snode_loop(<<ns, sn, <<>>, TRUE>>, old, new)

new_snode_ok(ns, sn, old, new) == new_snode_run(ns, sn, old, new)[4]

new_snode_ns(ns, sn, old, new) == new_snode_run(ns, sn, old, new)[1]

new_snode_sn(ns, sn, old, new) ==
    LET r == new_snode_run(ns, sn, old, new)
    IN  MapInsert(r[2], new, r[3])

\* serialize: one record per entry of each map.  A HashMap is iterated in an
\* order the program does not fix, so any order of the keys can come out.
KeyOrders(m) ==
    {ks \in [1..Cardinality(DOMAIN m) -> DOMAIN m] : Distinct(ks)}

serialize_supernode(sn, k) == [i |-> k, g |-> sn[k]]

serialize_node(ns, k) ==
    [i |-> k, p |-> ns[k].parent, n |-> ns[k].incoming, o |-> ns[k].outgoing]

serialize(ns, sn) ==
    {[s |-> [x \in DOMAIN ks |-> serialize_supernode(sn, ks[x])],
      q |-> [x \in DOMAIN kq |-> serialize_node(ns, kq[x])]]
        : ks \in KeyOrders(sn), kq \in KeyOrders(ns)}

\* NodeInfo::new with the edge lists of the record the other way round.
deserialize_node_swapped(node) == NodeInfo(node.p, node.o, node.n)

\* deserialize: NodeInfo::new(&node.p, &node.n, &node.o)
deserialize_node(node) == NodeInfo(node.p, node.n, node.o)

\* deserialize: the two loops of HashMap::insert over the records in file
\* order; an insert under a key already present replaces the entry.
RECURSIVE deserialize_supernodes(_, _)
deserialize_supernodes(supernodes0, s) ==
    IF s = <<>> THEN supernodes0
    ELSE deserialize_supernodes(MapInsert(supernodes0, Head(s).i, Head(s).g), Tail(s))

RECURSIVE deserialize_nodes(_, _)
deserialize_nodes(nodes0, q) ==
    IF q = <<>> THEN nodes0
    ELSE deserialize_nodes(MapInsert(nodes0, Head(q).i, deserialize_node(Head(q))), Tail(q))

deserialize(f) ==
    [supernodes |-> deserialize_supernodes(EmptyMap, f.s),
     nodes |-> deserialize_nodes(EmptyMap, f.q)]

\* The edge test of has_*_pred with the other entry of the edge.
has_pred_edge_other(v, pred) == v[2] = pred

\* has_outgoing_pred / has_incoming_pred, the test `v[0] == *pred`
has_pred_edge(v, pred) == v[1] = pred

\* has_outgoing_pred (is_out) and has_incoming_pred: "true" or "false" when
\* the call returns, "panic" when nodes.get(node).unwrap() finds no record,
\* "overflow" when the recursion does not end.  `frames` is the number of
\* nested calls still allowed: a chain of more calls than there are supernodes,
\* plus one for a plain node, has some supernode on it twice and goes on for
\* ever, as the calls are deterministic.
RECURSIVE has_pred(_, _, _, _, _, _)
RECURSIVE has_pred_members(_, _, _, _, _, _)
has_pred(ns, sn, node, pred, is_out, frames) ==
    IF frames = 0 THEN "overflow"
    ELSE IF node \notin DOMAIN sn
    THEN IF node \notin DOMAIN ns THEN "panic"
         ELSE LET edges == IF is_out THEN ns[node].outgoing ELSE ns[node].incoming
              IN  IF \E x \in DOMAIN edges : has_pred_edge(edges[x], pred)
                  THEN "true" ELSE "false"
    ELSE has_pred_members(ns, sn, sn[node], pred, is_out, frames - 1)

\* the loop over the members: the first member that does not return false
\* ends it
has_pred_members(ns, sn, members, pred, is_out, frames) ==
    IF members = <<>> THEN "false"
    ELSE LET r == has_pred(ns, sn, Head(members), pred, is_out, frames)
         IN  IF r = "false"
             THEN has_pred_members(ns, sn, Tail(members), pred, is_out, frames)
             ELSE r

has_outgoing_pred(ns, sn, node, pred) ==
    has_pred(ns, sn, node, pred, TRUE, Cardinality(DOMAIN sn) + 1)

has_incoming_pred(ns, sn, node, pred) ==
    has_pred(ns, sn, node, pred, FALSE, Cardinality(DOMAIN sn) + 1)

-----------------------------------------------------------------------------
(* updater/deletion.rs and the collaborators it calls *)

(* The pass works on a record st of the model (nodes, supernodes), the index *)
(* map, the two clique collections, ok (FALSE once an unwrap or an index has *)
(* panicked; every later step then leaves st alone) and calls, the calls of  *)
(* remove_from_supernode and handle_split made so far, with their arguments. *)

Panic(st) == [st EXCEPT !.ok = FALSE]

Called(st, name, a, b) == [st EXCEPT !.calls = Append(@, <<name, a, b>>)]

\* updater/funcs.rs, remove_from_supernode(stuff, snode, node): takes `node`
\* out of the member list of `snode` and clears the parent of `node`.
funcs_remove_from_supernode(st, snode, node) ==
    IF ~st.ok THEN st
    ELSE IF snode \notin DOMAIN st.supernodes THEN Panic(st)
    ELSE LET keep(x) == x # node
             s1 == [st EXCEPT !.supernodes[snode] = Retain(@, keep)]
         IN  IF node \notin DOMAIN s1.nodes THEN Panic(s1)
             ELSE [s1 EXCEPT !.nodes[node].parent = None]

\* updater/funcs.rs, to_single_node(stuff, sc, tc, snode, source_index,
\* target_index): collapses the singleton `snode` and puts its member in its
\* place in the two cliques.
funcs_to_single_node(st, snode, source_index, target_index) ==
    IF ~st.ok THEN st
    ELSE IF \/ snode \notin DOMAIN st.supernodes
            \/ Len(st.supernodes[snode]) # 1
            \/ st.supernodes[snode][1] \notin DOMAIN st.nodes
            \/ source_index \notin DOMAIN st.sc
            \/ target_index \notin DOMAIN st.tc
    THEN Panic(st)
    ELSE LET m == st.supernodes[snode][1]
             swap(c) == [c EXCEPT !.nodes =
                            [i \in DOMAIN @ |-> IF @[i] = snode THEN m ELSE @[i]]]
         IN  [st EXCEPT !.nodes[m].parent = None,
                        !.supernodes = MapRemove(@, snode),
                        !.sc[source_index] = swap(@),
                        !.tc[target_index] = swap(@)]

\* updater/funcs.rs, get_node_index(stuff, node, role): the clique index of
\* `node` for the role (0 source, 1 target); 0 here when the map has no entry.
get_node_index(st, node, role) ==
    IF node \in DOMAIN st.index_map THEN st.index_map[node][role + 1] ELSE 0

\* remove_from_node: retain(|x| x[1] != node && x[0] != triple.pred), on the
\* outgoing list for the subject and on the incoming list for the object.
remove_from_node_keep(x, node, pred) == x[2] # node /\ x[1] # pred

remove_from_node(st, triple, is_sub) ==
    IF ~st.ok THEN st
    ELSE LET node == IF is_sub THEN triple.sub ELSE triple.obj
             keep(x) == remove_from_node_keep(x, node, triple.pred)
         IN  IF node \notin DOMAIN st.nodes THEN Panic(st)
             ELSE IF is_sub
                  THEN [st EXCEPT !.nodes[node].outgoing = Retain(@, keep)]
                  ELSE [st EXCEPT !.nodes[node].incoming = Retain(@, keep)]

RECURSIVE Flatten(_)
Flatten(ss) == IF ss = <<>> THEN <<>> ELSE Head(ss) \o Flatten(Tail(ss))

group_outgoing_edges(nodeinfo) == Flatten(nodeinfo.outgoing)

\* remove_preds_in_clique: the loop `for i in 0..preds.len()`, whose range is
\* fixed on entry; r is <<preds, ok>>.  outgoing_edges[i] stands inside the
\* closure of retain: it is read, and panics past the end, only when preds
\* still holds an entry to test.
RECURSIVE remove_preds_loop(_, _, _, _)
remove_preds_loop(r, i, n, outgoing_edges) ==
    IF i >= n \/ ~r[2] THEN r
    ELSE IF r[1] = <<>> THEN remove_preds_loop(r, i + 1, n, outgoing_edges)
    ELSE IF i + 1 \notin DOMAIN outgoing_edges THEN <<r[1], FALSE>>
    ELSE LET keep(x) == x # outgoing_edges[i + 1]
         IN  remove_preds_loop(<<Retain(r[1], keep), TRUE>>, i + 1, n, outgoing_edges)

\* `nodeinfo` is the reference handle_deletion took before remove_from_node
\* ran: it is read here through the map, after the removal.
remove_preds_in_clique(st, triple, is_sub) ==
    IF ~st.ok THEN st
    ELSE LET node == IF is_sub THEN triple.sub ELSE triple.obj
             node_index == get_node_index(st, node, 0)
             outgoing_edges == group_outgoing_edges(st.nodes[node])
         IN  IF node_index \notin DOMAIN st.sc THEN Panic(st)
             ELSE IF Len(st.sc[node_index].nodes) = 1
             THEN LET r == remove_preds_loop(<<st.sc[node_index].preds, TRUE>>, 0,
                                             Len(st.sc[node_index].preds),
                                             outgoing_edges)
                  IN  [st EXCEPT !.sc[node_index].preds = r[1], !.ok = r[2]]
             ELSE st

handle_singleton_supernodes(st, snode) ==
    IF ~st.ok THEN st
    ELSE IF snode \notin DOMAIN st.index_map \/ snode \notin DOMAIN st.supernodes
    THEN Panic(st)
    ELSE IF Len(st.supernodes[snode]) = 1
    THEN funcs_to_single_node(st, snode, st.index_map[snode][1], st.index_map[snode][2])
    ELSE st

RECURSIVE get_inc_and_out(_, _)
get_inc_and_out(ns, snode) ==
    IF snode = <<>> THEN <<<<>>, <<>>>>
    ELSE LET r == get_inc_and_out(ns, Tail(snode))
         IN  <<ns[Head(snode)].incoming \o r[1], ns[Head(snode)].outgoing \o r[2]>>

intersects_for_vec_vec(v1, v2) == \E i \in DOMAIN v1 : v1[i] \in Range(v2)

\* handle_split: the branch taken when one of the two tests finds a shared edge
handle_split_removes(node_inc, node_out, rest_inc, rest_out) ==
    intersects_for_vec_vec(node_inc, rest_inc) \/ intersects_for_vec_vec(node_out, rest_out)

handle_split(st0, node) ==
    IF ~st0.ok THEN st0
    ELSE LET st == Called(st0, "handle_split", node, None)
         IN
         IF node \notin DOMAIN st.nodes THEN Panic(st)
         ELSE IF st.nodes[node].parent = None THEN Panic(st)
         ELSE IF st.nodes[node].parent \notin DOMAIN st.supernodes THEN Panic(st)
         ELSE LET nodeinfo == st.nodes[node]
                  supernode_id == nodeinfo.parent
                  keep(x) == x # node
                  snode == Retain(st.supernodes[supernode_id], keep)
              IN  IF ~(Range(snode) \subseteq DOMAIN st.nodes) THEN Panic(st)
                  ELSE LET rest == get_inc_and_out(st.nodes, snode)
                       IN  IF handle_split_removes(nodeinfo.incoming, nodeinfo.outgoing,
                                                   rest[1], rest[2])
                           THEN funcs_remove_from_supernode(
                                    Called(st, "remove_from_supernode", supernode_id, node),
                                    supernode_id, node)
                           ELSE st

\* handle_deletion, the branch of one endpoint with parent p: the first member
\* of p's list is passed as the supernode, and p as the node.
handle_clustered(st, p) ==
    IF ~st.ok THEN st
    ELSE IF p \notin DOMAIN st.supernodes THEN Panic(st)
    ELSE IF st.supernodes[p] = <<>> THEN Panic(st)
    ELSE LET supernode_id_for == st.supernodes[p][1]
             s1 == funcs_remove_from_supernode(
                       Called(st, "remove_from_supernode", supernode_id_for, p),
                       supernode_id_for, p)
             s2 == handle_split(s1, p)
         IN  handle_singleton_supernodes(s2, p)

handle_deletion(st, triple) ==
    IF triple.sub \notin DOMAIN st.nodes \/ triple.obj \notin DOMAIN st.nodes
    THEN Panic(st)
    ELSE LET p_sub == st.nodes[triple.sub].parent
             p_obj == st.nodes[triple.obj].parent
             s1 == IF p_sub # None
                   THEN handle_clustered(st, p_sub)
                   ELSE remove_preds_in_clique(remove_from_node(st, triple, TRUE),
                                               triple, TRUE)
         IN  IF p_obj # None
             THEN handle_clustered(s1, p_obj)
             ELSE remove_from_node(s1, triple, FALSE)

-----------------------------------------------------------------------------
(* The graph model driven by its public operations, from an empty model *)

\* The facts the operations are called with: a ring over the ids 1 and 2, so
\* that each of them occurs once as a subject and once as an object; the ids 3
\* and 4 name no node here and are free for clusters.
OpTriples == {Triple(1, 11, 2), Triple(2, 10, 1)}

\* The `old` lists new_snode is called with: every list of at most two ids,
\* repeated ids and ids of neither map included.
OldLists == SeqsUpTo(Ids, 2)

EdgeCount(ns) ==
    LET RECURSIVE Sum(_)
        Sum(S) == IF S = {} THEN 0
                  ELSE LET x == CHOOSE y \in S : TRUE
                       IN  Len(ns[x].incoming) + Len(ns[x].outgoing) + Sum(S \ {x})
    IN  Sum(DOMAIN ns)

OpCount == IF last.op = "init" THEN 0 ELSE last.n

Call(name, args) == [op |-> name, args |-> args, n |-> OpCount + 1]

PassIdle == UNCHANGED <<index_map, source_clique, target_clique, deletions, pc, file>>

Init ==
    /\ nodes = EmptyMap
    /\ supernodes = EmptyMap
    /\ index_map = EmptyMap
    /\ source_clique = <<>>
    /\ target_clique = <<>>
    /\ deletions = <<>>
    /\ pc = "idle"
    /\ file = EmptyFile
    /\ last = [op |-> "init", args |-> <<>>, n |-> 0]

NewNode ==
    \E t \in OpTriples, is_sub \in BOOLEAN :
        /\ OpCount < MaxOps
        /\ EdgeCount(nodes) < MaxEdges
        /\ new_node_ok(nodes, supernodes, t, is_sub)
        /\ nodes' = new_node(nodes, t, is_sub)
        /\ last' = Call("new_node", <<t, is_sub>>)
        /\ UNCHANGED supernodes
        /\ PassIdle

AddOutgoing ==
    \E t \in OpTriples :
        /\ OpCount < MaxOps
        /\ EdgeCount(nodes) < MaxEdges
        /\ t.sub \in DOMAIN nodes
        /\ nodes' = add_outgoing(nodes, t)
        /\ last' = Call("add_outgoing", <<>>)
        /\ UNCHANGED supernodes
        /\ PassIdle

AddIncoming ==
    \E t \in OpTriples :
        /\ OpCount < MaxOps
        /\ EdgeCount(nodes) < MaxEdges
        /\ t.obj \in DOMAIN nodes
        /\ nodes' = add_incoming(nodes, t)
        /\ last' = Call("add_incoming", <<>>)
        /\ UNCHANGED supernodes
        /\ PassIdle

RemoveFromSupernode ==
    \E node \in Ids :
        /\ OpCount < MaxOps
        /\ remove_from_supernode_ok(nodes, supernodes, node)
        /\ supernodes' = remove_from_supernode_sn(nodes, supernodes, node)
        /\ nodes' = remove_from_supernode_ns(nodes, node)
        /\ last' = Call("remove_from_supernode", <<node>>)
        /\ PassIdle

ToSingleNode ==
    \E snode \in Ids :
        /\ OpCount < MaxOps
        /\ to_single_node_ok(nodes, supernodes, snode)
        /\ nodes' = to_single_node_ns(nodes, supernodes, snode)
        /\ supernodes' = to_single_node_sn(supernodes, snode)
        /\ last' = Call("to_single_node", <<snode>>)
        /\ PassIdle

NewSnode ==
    \E old \in OldLists, new \in Ids :
        /\ OpCount < MaxOps
        /\ new_snode_ok(nodes, supernodes, old, new)
        /\ nodes' = new_snode_ns(nodes, supernodes, old, new)
        /\ supernodes' = new_snode_sn(nodes, supernodes, old, new)
        /\ last' = Call("new_snode", <<old, new>>)
        /\ PassIdle

Next ==
    \/ NewNode
    \/ AddOutgoing
    \/ AddIncoming
    \/ RemoveFromSupernode
    \/ ToSingleNode
    \/ NewSnode

Spec == Init /\ [][Next]_vars

-----------------------------------------------------------------------------
(* A maintenance pass: delete_triple over a batch, from a loaded model *)

RECURSIVE SortedSeq(_)
SortedSeq(S) ==
    IF S = {} THEN <<>>
    ELSE LET m == CHOOSE x \in S : \A y \in S : x <= y
         IN  <<m>> \o SortedSeq(S \ {m})

EdgeList(E) ==
    LET codes == SortedSeq({e[1] * 100 + e[2] : e \in E})
    IN  [i \in DOMAIN codes |-> <<codes[i] \div 100, codes[i] % 100>>]

AllTriples == {Triple(s, p, o) : s \in NodeIds, p \in Preds, o \in NodeIds}

Datasets == {T \in SUBSET AllTriples : Cardinality(T) \in 1..MaxTriples}

DatasetNodes(T) == {t.sub : t \in T} \cup {t.obj : t \in T}

\* The clusterings of a dataset: no cluster, or cluster 4 over two or more of
\* its nodes.
Clusterings(T) == {C \in SUBSET DatasetNodes(T) : Cardinality(C) # 1}

\* The node and supernode maps parse_meta loads for dataset T clustered by C
LoadedNodes(T, C) ==
    [n \in DatasetNodes(T) |->
        NodeInfo(IF n \in C THEN 4 ELSE None,
                 EdgeList({<<t.pred, t.sub>> : t \in {u \in T : u.obj = n}}),
                 EdgeList({<<t.pred, t.obj>> : t \in {u \in T : u.sub = n}}))]

LoadedSupernodes(C) == IF C = {} THEN EmptyMap ELSE [x \in {4} |-> SortedSeq(C)]

\* parser/clique.rs and parser/index_map.rs (create_cliques, get_index_map):
\* run() builds the cliques from the triples alone and the index map from the
\* cliques alone; the maps of the meta file are loaded afterwards and are given
\* to neither.  One clique per predicate fingerprint over the ids the triples
\* name; indices count from 1 here, as the sequences do.
Fingerprint(T, e, is_source) ==
    IF is_source THEN {t.pred : t \in {u \in T : u.sub = e}}
    ELSE {t.pred : t \in {u \in T : u.obj = e}}

Entities(T) == {t.sub : t \in T} \cup {t.obj : t \in T}

RECURSIVE FpCode(_)
FpCode(fp) ==
    IF fp = {} THEN 0
    ELSE LET p == CHOOSE x \in fp : TRUE IN 2 ^ (p - 10) + FpCode(fp \ {p})

create_cliques(T, is_source) ==
    LET E == Entities(T)
        fps == {Fingerprint(T, e, is_source) : e \in E}
        codes == SortedSeq({FpCode(fp) : fp \in fps})
    IN  [i \in DOMAIN codes |->
            LET fp == CHOOSE f \in fps : FpCode(f) = codes[i]
            IN  [preds |-> SortedSeq(fp),
                 nodes |-> SortedSeq({e \in E : Fingerprint(T, e, is_source) = fp})]]

CliqueIndex(clique, e) == CHOOSE i \in DOMAIN clique : e \in Range(clique[i].nodes)

get_index_map(sc, tc) ==
    [e \in UNION {Range(sc[i].nodes) : i \in DOMAIN sc} |->
        <<CliqueIndex(sc, e), CliqueIndex(tc, e)>>]

\* The batches of a dataset: its facts, each at most once, in any order
Batches(T) == {b \in SeqsUpTo(T, MaxBatch) : b # <<>> /\ Distinct(b)}

InitDel ==
    \E T \in Datasets :
      \E C \in Clusterings(T) :
        \E b \in Batches(T) :
            /\ nodes = LoadedNodes(T, C)
            /\ supernodes = LoadedSupernodes(C)
            /\ source_clique = create_cliques(T, TRUE)
            /\ target_clique = create_cliques(T, FALSE)
            /\ index_map = get_index_map(source_clique, target_clique)
            /\ deletions = b
            /\ pc = "running"
            /\ file = EmptyFile
            /\ last = [op |-> "init", args |-> <<>>, n |-> 0]

PassState ==
    [nodes |-> nodes, supernodes |-> supernodes, index_map |-> index_map,
     sc |-> source_clique, tc |-> target_clique, ok |-> TRUE, calls |-> <<>>]

\* One round of the loop of delete_triple
HandleDeletion ==
    /\ pc = "running"
    /\ deletions # <<>>
    /\ LET r == handle_deletion(PassState, Head(deletions))
       IN  /\ nodes' = r.nodes
           /\ supernodes' = r.supernodes
           /\ source_clique' = r.sc
           /\ target_clique' = r.tc
           /\ pc' = IF r.ok THEN "running" ELSE "aborted"
           /\ deletions' = IF r.ok THEN Tail(deletions) ELSE deletions
           /\ last' = Call("handle_deletion", <<Head(deletions), r.calls>>)
    /\ UNCHANGED <<index_map, file>>

\* delete_triple returns once the batch is used up
Return ==
    /\ pc = "running"
    /\ deletions = <<>>
    /\ pc' = "done"
    /\ UNCHANGED <<nodes, supernodes, index_map, source_clique, target_clique,
                   deletions, file, last>>

NextDel == HandleDeletion \/ Return

SpecDel == InitDel /\ [][NextDel]_vars

-----------------------------------------------------------------------------
(* Claims about the graph model, checked under Spec *)

\* How often id n occurs over all member lists.
Occurrences(sn, n) ==
    LET RECURSIVE Sum(_)
        Sum(S) == IF S = {} THEN 0
                  ELSE LET k == CHOOSE y \in S : TRUE
                       IN  Count(sn[k], n) + Sum(S \ {k})
    IN  Sum(DOMAIN sn)

\* C1: in every reachable state the key sets of the node map and of the
\* supernode map are disjoint: no id is at once a node and a supernode.
C1_KeySetsDisjoint == DOMAIN nodes \cap DOMAIN supernodes = {}

\* C2: in every reachable state a node n has parent = Some(P) iff P is a key of
\* the supernode map and n occurs exactly once in P's member list, and a node
\* with parent = None occurs in no member list.
C2_ParentConsistent ==
    \A n \in DOMAIN nodes :
        /\ \A P \in Ids :
               nodes[n].parent = P <=>
                   (P \in DOMAIN supernodes /\ Count(supernodes[P], n) = 1)
        /\ nodes[n].parent = None => Occurrences(supernodes, n) = 0

\* C3: in every reachable state a node id occurs in at most one member list,
\* and at most once in it.
C3_MembersPartition == \A n \in Ids : Occurrences(supernodes, n) <= 1

\* The member list new_snode(old, new) is to build: each plain node of `old`
\* and the members of each supernode of `old`, in the order of `old`.
RECURSIVE ExpectedMembers(_, _)
ExpectedMembers(sn, old) ==
    IF old = <<>> THEN <<>>
    ELSE (IF Head(old) \in DOMAIN sn THEN sn[Head(old)] ELSE <<Head(old)>>)
         \o ExpectedMembers(sn, Tail(old))

\* C10: a step new_snode(old, new) with `old` a list of distinct ids leaves the
\* record `new` holding the order-preserving concatenation of the inputs, every
\* one of those members with parent = Some(new), no record for a supernode
\* named in `old`, and no other record holding one of those members.
C10_NewSnodeMerges ==
    [][ (last'.op = "new_snode" /\ Distinct(last'.args[1])) =>
        LET old == last'.args[1]
            new == last'.args[2]
            exp == ExpectedMembers(supernodes, old)
        IN  /\ new \in DOMAIN supernodes'
            /\ supernodes'[new] = exp
            /\ \A m \in Range(exp) : nodes'[m].parent = new
            /\ \A n \in Range(old) :
                   n \in DOMAIN supernodes => n \notin DOMAIN supernodes'
            /\ \A Q \in DOMAIN supernodes' \ {new} :
                   Range(supernodes'[Q]) \cap Range(exp) = {}
      ]_vars

-----------------------------------------------------------------------------
(* handle_split on its own, called once on an id of a loaded model *)

InitSplit ==
    \E T \in Datasets :
      \E C \in Clusterings(T) :
            /\ nodes = LoadedNodes(T, C)
            /\ supernodes = LoadedSupernodes(C)
            /\ source_clique = create_cliques(T, TRUE)
            /\ target_clique = create_cliques(T, FALSE)
            /\ index_map = get_index_map(source_clique, target_clique)
            /\ deletions = <<>>
            /\ pc = "idle"
            /\ file = EmptyFile
            /\ last = [op |-> "init", args |-> <<>>, n |-> 0]

HandleSplit ==
    \E node \in Ids :
        /\ pc = "idle"
        /\ last.op = "init"
        /\ LET r == handle_split(PassState, node)
           IN  /\ nodes' = r.nodes
               /\ supernodes' = r.supernodes
               /\ pc' = IF r.ok THEN "idle" ELSE "aborted"
               /\ last' = Call("handle_split", <<node>>)
        /\ UNCHANGED <<index_map, source_clique, target_clique, deletions, file>>

NextSplit == HandleSplit

SpecSplit == InitSplit /\ [][NextSplit]_vars

-----------------------------------------------------------------------------
(* Claims about the maintenance pass, checked under SpecDel and SpecSplit *)

Edges(ns, n) == Range(ns[n].incoming) \cup Range(ns[n].outgoing)

\* The edges of the members of cluster P other than n
RestEdges(ns, sn, P, n) == UNION {Edges(ns, m) : m \in (Range(sn[P]) \ {n}) \cap DOMAIN ns}

Handled == last'.op = "handle_deletion"

Completed == Handled /\ pc' # "aborted"

\* C4: once delete_triple has returned, no supernode has exactly one member.
\* (No pass that reaches a cluster returns, so the supernode map of a returned
\* pass is the one it started with: this says nothing about a collapse.)
C4_NoSingletonAfterPass ==
    pc = "done" => \A P \in DOMAIN supernodes : Len(supernodes[P]) # 1

\* C5: a completed handle_split(node) leaves the node detached from its cluster
\* iff its edges and the edges of the other members share no identical
\* (predicate, other-id) entry, and leaves it a member, its parent pointing to
\* the cluster, when they share one.
C5_SplitIffNoOverlap ==
    [][ (last'.op = "handle_split" /\ pc' # "aborted") =>
        LET node == last'.args[1]
            P == nodes[node].parent
        IN  IF Edges(nodes, node) \cap RestEdges(nodes, supernodes, P, node) = {}
            THEN nodes'[node].parent = None /\ node \notin Range(supernodes'[P])
            ELSE nodes'[node].parent = P /\ node \in Range(supernodes'[P])
      ]_vars

\* The endpoints of triple t that belong to a cluster of three or more members
BigClusterEndpoints(ns, sn, t) ==
    {e \in {t.sub, t.obj} :
        /\ e \in DOMAIN ns
        /\ ns[e].parent \in DOMAIN sn
        /\ Len(sn[ns[e].parent]) >= 3}

\* C6: when an endpoint e of the removed triple belongs to a cluster P of three
\* or more members, the handling detaches and tests e itself (the detach call
\* names e, the split test is given e), and every other member of P stays in
\* P's list with its parent pointing to P.
C6_DetachesTouchedNode ==
    [][ Handled =>
        LET t == last'.args[1]
            calls == last'.args[2]
        IN  \A e \in BigClusterEndpoints(nodes, supernodes, t) :
              LET P == nodes[e].parent
              IN  /\ \E i \in DOMAIN calls :
                         calls[i][1] = "remove_from_supernode" /\ e \in {calls[i][2], calls[i][3]}
                  /\ \E i \in DOMAIN calls :
                         calls[i][1] = "handle_split" /\ calls[i][2] = e
                  /\ \A m \in Range(supernodes[P]) \ {t.sub, t.obj} :
                         /\ P \in DOMAIN supernodes'
                         /\ m \in Range(supernodes'[P])
                         /\ nodes'[m].parent = P
      ]_vars

\* C7: the handling of removed triple (s, p, o) ends with the edge gone from
\* both endpoints, whether or not they were clustered: s's outgoing list holds
\* no entry (p, o) and o's incoming list holds no entry (p, s).  A handling
\* that stops on a fatal failure with the entry still there does not meet it.
C7_EdgeGone ==
    [][ Handled =>
        LET t == last'.args[1]
        IN  /\ <<t.pred, t.obj>> \notin Range(nodes'[t.sub].outgoing)
            /\ <<t.pred, t.sub>> \notin Range(nodes'[t.obj].incoming)
      ]_vars

\* C8: for a parentless endpoint the handling of (s, p, o) removes from s's
\* outgoing list only the entries equal to (p, o), and from o's incoming list
\* only the entries equal to (p, s); the other entries stay, in their order.
C8_ExactPairRemoved ==
    [][ Completed =>
        LET t == last'.args[1]
            keepOut(x) == x # <<t.pred, t.obj>>
            keepInc(x) == x # <<t.pred, t.sub>>
        IN  /\ nodes[t.sub].parent = None =>
                  nodes'[t.sub].outgoing =
                      Retain(nodes[t.sub].outgoing, keepOut)
            /\ nodes[t.obj].parent = None =>
                  nodes'[t.obj].incoming = Retain(nodes[t.obj].incoming, keepInc)
      ]_vars

\* The edges of x once the entry of triple t is taken out of x's lists
EdgesWithout(ns, x, t) ==
    (Range(ns[x].outgoing) \ (IF x = t.sub THEN {<<t.pred, t.obj>>} ELSE {}))
    \cup (Range(ns[x].incoming) \ (IF x = t.obj THEN {<<t.pred, t.sub>>} ELSE {}))

\* C9: when an endpoint x of the removed triple belongs to a two-member
\* cluster P = {x, y} and, the triple's edge removed, x's edges share nothing
\* with y's, the handling ends with x.parent = None, y.parent = None and no
\* supernode record for P.
C9_CollapseAfterSplit ==
    [][ Handled =>
        LET t == last'.args[1]
        IN  \A x \in {t.sub, t.obj} :
              (/\ nodes[x].parent \in DOMAIN supernodes
               /\ Len(supernodes[nodes[x].parent]) = 2
               /\ Cardinality(Range(supernodes[nodes[x].parent])) = 2
               /\ {t.sub, t.obj} \cap Range(supernodes[nodes[x].parent]) = {x}
               /\ EdgesWithout(nodes, x, t)
                      \cap RestEdges(nodes, supernodes, nodes[x].parent, x) = {})
              => /\ pc' # "aborted"
                 /\ nodes[x].parent \notin DOMAIN supernodes'
                 /\ \A m \in Range(supernodes[nodes[x].parent]) : nodes'[m].parent = None
      ]_vars

-----------------------------------------------------------------------------
(* Further claims about the graph model, checked under Spec *)

\* C11: to_single_node(S) acts only on a supernode of exactly one member; on
\* one of more members it fails and changes nothing, so no step of
\* to_single_node starts from a list of another length.
C11_CollapsesOnlySingleton ==
    [][ last'.op = "to_single_node" => Len(supernodes[last'.args[1]]) = 1 ]_vars

\* The list s with every entry equal to x taken out, the rest in their order
RECURSIVE Without(_, _)
Without(s, x) ==
    IF s = <<>> THEN <<>>
    ELSE IF Head(s) = x THEN Without(Tail(s), x)
    ELSE <<Head(s)>> \o Without(Tail(s), x)

\* C12: a step remove_from_supernode(id) starts from a node with a parent P,
\* sets that node's parent to None, takes id out of P's member list with the
\* other members in their order, and leaves every other node record and every
\* other supernode record as it was.
C12_DetachFrame ==
    [][ last'.op = "remove_from_supernode" =>
        LET id == last'.args[1]
            P == nodes[id].parent
        IN  /\ P # None
            /\ DOMAIN nodes' = DOMAIN nodes
            /\ DOMAIN supernodes' = DOMAIN supernodes
            /\ nodes'[id].parent = None
            /\ nodes'[id].incoming = nodes[id].incoming
            /\ nodes'[id].outgoing = nodes[id].outgoing
            /\ \A n \in DOMAIN nodes \ {id} : nodes'[n] = nodes[n]
            /\ supernodes'[P] = Without(supernodes[P], id)
            /\ \A Q \in DOMAIN supernodes \ {P} : supernodes'[Q] = supernodes[Q]
      ]_vars

\* C12 witness: a node has been detached from a cluster that keeps another
\* member, while another node record exists.
C12_Witness ==
    /\ last.op = "remove_from_supernode"
    /\ nodes[last.args[1]].parent = None
    /\ \E P \in DOMAIN supernodes :
           /\ supernodes[P] # <<>>
           /\ last.args[1] \notin Range(supernodes[P])
           /\ \E m \in Range(supernodes[P]) : m \in DOMAIN nodes /\ nodes[m].parent = P

\* C13: a step new_node(triple, is_subject) creates a record with parent None
\* whose only edge is the observed one on the side of the endpoint's role:
\* outgoing = [(pred, obj)] and no incoming edge for the subject, incoming =
\* [(pred, sub)] and no outgoing edge for the object.
C13_NewNodeEdgeSide ==
    [][ last'.op = "new_node" =>
        LET t == last'.args[1]
            is_sub == last'.args[2]
            id == IF is_sub THEN t.sub ELSE t.obj
        IN  /\ id \notin DOMAIN nodes
            /\ id \in DOMAIN nodes'
            /\ nodes'[id].parent = None
            /\ IF is_sub
               THEN /\ nodes'[id].outgoing = << <<t.pred, t.obj>> >>
                    /\ nodes'[id].incoming = <<>>
               ELSE /\ nodes'[id].incoming = << <<t.pred, t.sub>> >>
                    /\ nodes'[id].outgoing = <<>>
      ]_vars

\* C19: in every reachable state every id in a member list is a key of the
\* node map and not the id of a supernode.
C19_ClustersFlat ==
    \A P \in DOMAIN supernodes :
        \A m \in Range(supernodes[P]) :
            m \in DOMAIN nodes /\ m \notin DOMAIN supernodes

\* C20: in every reachable state every key of the supernode map maps to a
\* list of at least one member.
C20_NoEmptyCluster == \A P \in DOMAIN supernodes : Len(supernodes[P]) >= 1

-----------------------------------------------------------------------------
(* Further claims about the maintenance pass, checked under SpecDel *)

\* C16: a pass started on a loaded model, whose removed triples all join keys
\* of the node map, reaches the end of its batch: it never stops on a fatal
\* lookup failure.
C16_PassCompletes == pc # "aborted"

\* The predicates carried by the outgoing edges of node n
OutPreds(ns, n) == {e[1] : e \in Range(ns[n].outgoing)}

\* C18: when the handling of removed triple (s, p, o) with a parentless s has
\* completed: if s's source clique has more than one member its fingerprint
\* is unchanged; if it has exactly one member, p is dropped from the
\* fingerprint exactly when no remaining outgoing edge of s carries p, and
\* every predicate of the fingerprint that a remaining edge carries stays.
C18_CliquePruning ==
    [][ Completed =>
        LET t == last'.args[1]
            i == index_map[t.sub][1]
            before == source_clique[i].preds
            after == source_clique'[i].preds
            remaining == OutPreds(nodes', t.sub)
        IN  nodes[t.sub].parent = None =>
                IF Len(source_clique[i].nodes) > 1
                THEN after = before
                ELSE /\ t.pred \in Range(before) =>
                            (t.pred \notin Range(after) <=> t.pred \notin remaining)
                     /\ \A q \in Range(before) \cap remaining : q \in Range(after)
      ]_vars

-----------------------------------------------------------------------------
(* Snapshots: a model loaded from a file, queried, written out and loaded *)
(* again                                                                   *)

\* The records a snapshot file is made of.  Supernode records name 3 and 4,
\* with a nested list and a flat one; node records name 1, 2 and 4, parentless
\* with two outgoing edges or under 3 with one incoming edge.  The same id can
\* come twice in a collection, and 4 in both.
FileLists == {<<1, 4>>, <<2>>}

SupernodeRecords == {[i |-> k, g |-> g] : k \in {3, 4}, g \in FileLists}

NodeShapes ==
    {[p |-> None, n |-> <<>>, o |-> << <<10, 2>>, <<11, 1>> >>],
     [p |-> 3, n |-> << <<10, 1>> >>, o |-> <<>>]}

NodeRecords ==
    {[i |-> k, p |-> sh.p, n |-> sh.n, o |-> sh.o] : k \in {1, 2, 4}, sh \in NodeShapes}

Files ==
    {[s |-> s, q |-> q] : s \in SeqsUpTo(SupernodeRecords, MaxRecords),
                          q \in SeqsUpTo(NodeRecords, MaxRecords)}

InitSer ==
    /\ file \in Files
    /\ nodes = EmptyMap
    /\ supernodes = EmptyMap
    /\ index_map = EmptyMap
    /\ source_clique = <<>>
    /\ target_clique = <<>>
    /\ deletions = <<>>
    /\ pc = "idle"
    /\ last = [op |-> "init", args |-> <<>>, n |-> 0]

\* Meta::deserialize(file), on the file given or on the one just written
Deserialize ==
    /\ last.op \in {"init", "serialize"}
    /\ LET m == deserialize(file)
       IN  /\ nodes' = m.nodes
           /\ supernodes' = m.supernodes
    /\ last' = Call("deserialize", <<>>)
    /\ UNCHANGED file
    /\ PassIdle

\* meta.serialize() on the model just loaded from the given file
Serialize ==
    /\ last.op = "deserialize"
    /\ last.n = 1
    /\ file' \in serialize(nodes, supernodes)
    /\ last' = Call("serialize", <<>>)
    /\ UNCHANGED <<nodes, supernodes, index_map, source_clique, target_clique,
                   deletions, pc>>

\* meta.has_outgoing_pred(&node, &pred) on the model just loaded
HasOutgoingPred ==
    \E node \in Ids, pred \in Preds :
        /\ last.op = "deserialize"
        /\ last.n = 1
        /\ last' = Call("has_outgoing_pred",
                        <<node, pred, has_outgoing_pred(nodes, supernodes, node, pred)>>)
        /\ UNCHANGED <<nodes, supernodes>>
        /\ PassIdle

\* meta.has_incoming_pred(&node, &pred) on the model just loaded
HasIncomingPred ==
    \E node \in Ids, pred \in Preds :
        /\ last.op = "deserialize"
        /\ last.n = 1
        /\ last' = Call("has_incoming_pred",
                        <<node, pred, has_incoming_pred(nodes, supernodes, node, pred)>>)
        /\ UNCHANGED <<nodes, supernodes>>
        /\ PassIdle

NextSer == Deserialize \/ Serialize \/ HasOutgoingPred \/ HasIncomingPred

SpecSer == InitSer /\ [][NextSer]_vars

-----------------------------------------------------------------------------
(* Claims about snapshots and the predicate queries, checked under SpecSer *)

\* The ids of the records of a collection, in file order
RecordIds(recs) == [x \in DOMAIN recs |-> recs[x].i]

\* No id comes twice in a collection or in both collections
NoDuplicateIds(f) ==
    /\ Distinct(RecordIds(f.s))
    /\ Distinct(RecordIds(f.q))
    /\ Range(RecordIds(f.s)) \cap Range(RecordIds(f.q)) = {}

\* C14: deserialize returns a model only from a snapshot in which no id comes
\* twice in one record collection or in both: no step of deserialize starts
\* from a file with a duplicate id.
C14_DeserializeRejectsDuplicates ==
    [][ last'.op = "deserialize" => NoDuplicateIds(file) ]_vars

\* C15: deserialize(serialize(m)) has the node map and the supernode map of m:
\* the step that loads the file written from a model leaves both maps as
\* they were, keys, parents, member lists and edge lists in their order.
C15_RoundTrip ==
    [][ (last.op = "serialize" /\ last'.op = "deserialize") =>
            /\ nodes' = nodes
            /\ supernodes' = supernodes
      ]_vars

\* C15 witness: a model of two supernodes and two nodes, one of them with a
\* parent and one with two outgoing edges, has been written out with its
\* records in another order than the file it came from, and loaded again.
C15_Witness ==
    /\ last.op = "deserialize"
    /\ last.n = 3
    /\ Cardinality(DOMAIN supernodes) = 2
    /\ Cardinality(DOMAIN nodes) = 2
    /\ \E k \in DOMAIN nodes : nodes[k].parent # None /\ nodes[k].incoming # <<>>
    /\ \E k \in DOMAIN nodes : Len(nodes[k].outgoing) = 2
    /\ \E k \in DOMAIN supernodes : Len(supernodes[k]) = 2
    /\ file.s[1].i > file.s[2].i
    /\ file.q[1].i > file.q[2].i

\* The ids below id in the membership relation: its members, their members, ...
RECURSIVE MembersClosure(_, _)
MembersClosure(sn, S) ==
    LET T == S \cup UNION {Range(sn[k]) : k \in S \cap DOMAIN sn}
    IN  IF T = S THEN S ELSE MembersClosure(sn, T)

Descendants(sn, id) ==
    IF id \in DOMAIN sn THEN MembersClosure(sn, Range(sn[id])) ELSE {}

\* Membership is acyclic: no supernode is below itself
Acyclic(sn) == \A k \in DOMAIN sn : k \notin Descendants(sn, k)

\* The plain nodes a query on id ends at: id itself, or the plain nodes below it
Leaves(sn, id) == {d \in {id} \cup Descendants(sn, id) : d \notin DOMAIN sn}

\* Some leaf of id has an edge of predicate p on the side asked for
SomeLeafCarries(ns, sn, id, p, is_out) ==
    \E l \in Leaves(sn, id) \cap DOMAIN ns :
        \E e \in Range(IF is_out THEN ns[l].outgoing ELSE ns[l].incoming) : e[1] = p

\* C17: on a model with acyclic membership has_outgoing_pred(id, p) and
\* has_incoming_pred(id, p) end, and when id and every id below it has a record
\* they return true iff some plain node at or below id has an outgoing (resp.
\* incoming) edge of predicate p: the node itself for a plain node, a member
\* taken recursively for a supernode, false when no member carries p.
C17_HasPred ==
    [][ last'.op \in {"has_outgoing_pred", "has_incoming_pred"} =>
        LET id == last'.args[1]
            p == last'.args[2]
            r == last'.args[3]
            is_out == last'.op = "has_outgoing_pred"
        IN  Acyclic(supernodes) =>
              /\ r # "overflow"
              /\ ({id} \cup Descendants(supernodes, id)
                      \subseteq DOMAIN nodes \cup DOMAIN supernodes) =>
                    r = IF SomeLeafCarries(nodes, supernodes, id, p, is_out)
                        THEN "true" ELSE "false"
      ]_vars

\* C17 witness: a query on a supernode with a supernode among its members has
\* returned true after a first member that carries no such edge, on a model
\* with acyclic membership.
C17_Witness ==
    /\ last.op = "has_incoming_pred"
    /\ last.args[3] = "true"
    /\ Acyclic(supernodes)
    /\ last.args[1] \in DOMAIN supernodes
    /\ Len(supernodes[last.args[1]]) = 2
    /\ supernodes[last.args[1]][2] \in DOMAIN supernodes
    /\ has_incoming_pred(nodes, supernodes, supernodes[last.args[1]][1], last.args[2]) = "false"

=============================================================================
